---- MODULE Spec2Model ----
(***************************************************************************)
(* Model of src/src/topology.rs: MachineTopology::new() flattens the       *)
(* object tree of the hwloc provider into a table of CpuInfo records, and  *)
(* cores(), sockets() and cpus_on_socket() query that table.               *)
(*                                                                         *)
(* The provider's tree is the input of new().  It is the variable hw, drawn*)
(* by Init from bounded families of trees and never changed afterwards.    *)
(* Option values are sequences of length at most one: <<>> is None and     *)
(* <<x>> is Some(x).  An object reference is an object number, 0 standing  *)
(* for the absent parent of a root.                                        *)
(***************************************************************************)
EXTENDS Naturals, Sequences, FiniteSets

(* ------------------------------ bounds --------------------------------- *)
\* longest parent chain above the processing unit in the chain family
MaxChain == 5
\* most processing units of a tree in the forest family
MaxPU == 2
\* number of sibling columns below the split level in the forest family
MaxWidth == 2
\* largest socket identifier passed to cpus_on_socket
MaxSocketArg == 2

VARIABLES hw, pc, cpus, i, data, mt, ret, msg

vars == <<hw, pc, cpus, i, data, mt, ret, msg>>

(* ------------------------- the provider's tree ------------------------- *)
NoObj == 0

Kind(t, d) == [type |-> t, depth |-> d]

\* object_type() of an interior object together with the depth() of its
\* cache attributes (0 where the object is not a cache)
ChainKinds ==
    { Kind("Core", 0), Kind("L1Cache", 0), Kind("L1Cache", 1),
      Kind("L2Cache", 1), Kind("L2Cache", 2), Kind("L3Cache", 2),
      Kind("L3Cache", 3), Kind("NUMANode", 0), Kind("Package", 0) }

\* A tree of n objects.  os_index and total_memory are fixed functions of the
\* object number, chosen so that they differ from object to object and from
\* the logical index.
Tree(n, kindOf, parentOf, pus) ==
    [ status |-> "ok",
      n      |-> n,
      type   |-> [o \in 1..n |-> kindOf[o].type],
      depth  |-> [o \in 1..n |-> kindOf[o].depth],
      parent |-> parentOf,
      os     |-> [o \in 1..n |-> n - o],
      mem    |-> [o \in 1..n |-> IF kindOf[o].type = "NUMANode" THEN 2 * o ELSE 0],
      pus    |-> pus ]

\* The provider failed: Topology::new() returned None ("no_topology") or
\* objects_with_type(PU) returned Err ("no_pus").
Failed(why) ==
    [ status |-> why, n |-> 0, type |-> <<>>, depth |-> <<>>, parent |-> <<>>,
      os |-> <<>>, mem |-> <<>>, pus |-> <<>> ]

\* Chain family: one processing unit (object 1) below a single chain of
\* interior objects ks[1], ks[2], ... listed from the unit upwards.
ChainTree(ks) ==
    LET n == Len(ks) + 1 IN
    Tree(n,
         [o \in 1..n |-> IF o = 1 THEN Kind("PU", 0) ELSE ks[o - 1]],
         [o \in 1..n |-> IF o = n THEN NoObj ELSE o + 1],
         <<1>>)

\* Forest family: the levels of a machine from the root downwards, in the
\* order hwloc lays them out; a NUMA level may sit above or below the L3.
Frame ==
    << Kind("NUMANode", 0), Kind("L3Cache", 3), Kind("NUMANode", 0),
       Kind("L2Cache", 2), Kind("L1Cache", 1), Kind("Core", 0) >>

RECURSIVE Pick(_, _)
\* the subsequence of s selected by the mask m
Pick(s, m) ==
    IF s = <<>> THEN <<>>
    ELSE IF Head(m) THEN <<Head(s)>> \o Pick(Tail(s), Tail(m))
         ELSE Pick(Tail(s), Tail(m))

\* number of interior objects: the levels 1..sp hold one object each, the
\* levels below hold MaxWidth objects each
Interior(levels, sp) == sp + MaxWidth * (Len(levels) - sp)

LevelOf(o, sp) == IF o <= sp THEN o ELSE sp + ((o - sp - 1) \div MaxWidth) + 1

\* Forest tree: levels from the root down, split below level sp into
\* MaxWidth columns; unit k hangs below the interior object att[k] (or below
\* nothing when att[k] = NoObj).
ForestTree(levels, sp, att) ==
    LET ni == Interior(levels, sp)
        n  == ni + Len(att)
    IN  Tree(n,
             [o \in 1..n |-> IF o > ni THEN Kind("PU", 0) ELSE levels[LevelOf(o, sp)]],
             [o \in 1..n |->
                 IF o > ni THEN att[o - ni]
                 ELSE IF o <= sp THEN o - 1
                 ELSE IF LevelOf(o, sp) = sp + 1 THEN sp
                 ELSE o - MaxWidth],
             [k \in 1..Len(att) |-> ni + k])

(* --------------------- accessors of provider objects ------------------- *)
object_type(o) == hw.type[o]

cache_depth(o) == hw.depth[o]

parent_of(o) == hw.parent[o]

os_index(o) == hw.os[o]

total_memory(o) == hw.mem[o]

\* The provider numbers the objects of one type 0, 1, 2, ... in object order.
logical_index(o) ==
    Cardinality({q \in 1..hw.n : hw.type[q] = hw.type[o] /\ q < o})

(* -------------------------- MachineTopology::new ----------------------- *)
IsCore(o) == object_type(o) = "Core"

\* variant: the depth() test of the L1 loop is left out
IsL1AnyDepth(o) == object_type(o) = "L1Cache"

IsL1(o) == object_type(o) = "L1Cache" /\ ~(cache_depth(o) < 1)

IsL2(o) == object_type(o) = "L2Cache" /\ ~(cache_depth(o) < 2)

\* variant: the L3 loop compares depth() <= 3 where the code has < 3
IsL3DepthAbove3(o) == object_type(o) = "L3Cache" /\ ~(cache_depth(o) <= 3)

IsL3(o) == object_type(o) = "L3Cache" /\ ~(cache_depth(o) < 3)

\* variant: the NUMA loop runs while the type is NUMANode, not while it differs
IsNumaInverted(o) == object_type(o) # "NUMANode"

IsNuma(o) == object_type(o) = "NUMANode"

Stops(stage, o) ==
    CASE stage = "core" -> IsCore(o)
      [] stage = "l1"   -> IsL1(o)
      [] stage = "l2"   -> IsL2(o)
      [] stage = "l3"   -> IsL3(o)
      [] stage = "numa" -> IsNuma(o)

RECURSIVE Ascend(_, _)
\* while parent.is_some() && !stops(parent) { parent = parent.parent() }
Ascend(stage, parent) ==
    IF parent = NoObj THEN NoObj
    ELSE IF Stops(stage, parent) THEN parent
    ELSE Ascend(stage, parent_of(parent))

\* where each loop of one iteration starts
CoreStart(cpu) == parent_of(cpu)

L1Start(cpu, core) == core

L2Start(cpu, l1) == l1

L3Start(cpu, l2) == l2

\* variant: the NUMA loop starts again from cpu.parent()
NumaStartFromCpu(cpu, socket) == parent_of(cpu)

NumaStart(cpu, socket) == socket

NodeInfo(n) == [node |-> os_index(n), memory |-> total_memory(n)]

\* variant: cpu is filled from cpu.logical_index()
CpuInfoCpuLogical(numa_node, socket, core, cpu, l1, l2) ==
    [ node   |-> numa_node,
      socket |-> logical_index(socket),
      core   |-> logical_index(core),
      cpu    |-> logical_index(cpu),
      l1     |-> logical_index(l1),
      l2     |-> logical_index(l2),
      l3     |-> logical_index(socket) ]

\* variant: l3 is filled from l2.logical_index()
CpuInfoL3FromL2(numa_node, socket, core, cpu, l1, l2) ==
    [ node   |-> numa_node,
      socket |-> logical_index(socket),
      core   |-> logical_index(core),
      cpu    |-> os_index(cpu),
      l1     |-> logical_index(l1),
      l2     |-> logical_index(l2),
      l3     |-> logical_index(l2) ]

\* variant: core is filled from socket.logical_index()
CpuInfoCoreFromSocket(numa_node, socket, core, cpu, l1, l2) ==
    [ node   |-> numa_node,
      socket |-> logical_index(socket),
      core   |-> logical_index(socket),
      cpu    |-> os_index(cpu),
      l1     |-> logical_index(l1),
      l2     |-> logical_index(l2),
      l3     |-> logical_index(socket) ]

CpuInfo(numa_node, socket, core, cpu, l1, l2) ==
    [ node   |-> numa_node,
      socket |-> logical_index(socket),
      core   |-> logical_index(core),
      cpu    |-> os_index(cpu),
      l1     |-> logical_index(l1),
      l2     |-> logical_index(l2),
      l3     |-> logical_index(socket) ]

\* The objects the loops of one iteration stop at; a stage after a failed one
\* is not run (the expect() before it panics).
Walk(cpu) ==
    LET core   == Ascend("core", CoreStart(cpu))
        l1     == IF core = NoObj THEN NoObj ELSE Ascend("l1", L1Start(cpu, core))
        l2     == IF l1 = NoObj THEN NoObj ELSE Ascend("l2", L2Start(cpu, l1))
        socket == IF l2 = NoObj THEN NoObj ELSE Ascend("l3", L3Start(cpu, l2))
        numa   == IF socket = NoObj THEN NoObj ELSE Ascend("numa", NumaStart(cpu, socket))
    IN  [core |-> core, l1 |-> l1, l2 |-> l2, socket |-> socket, numa |-> numa]

\* the message of the first expect() that panics, "" when none does
Panic(w) ==
    IF w.core = NoObj THEN "PU has no Core?"
    ELSE IF w.l1 = NoObj THEN "Core doesn't have a L1 cache?"
    ELSE IF w.l2 = NoObj THEN "Core doesn't have a L2 cache?"
    ELSE IF w.socket = NoObj THEN "Core doesn't have a L3 cache (socket)?"
    ELSE ""

Record(cpu, w) ==
    CpuInfo(IF w.numa = NoObj THEN <<>> ELSE <<NodeInfo(w.numa)>>,
            w.socket, w.core, cpu, w.l1, w.l2)

\* lines 57-62: the empty table, the provider and its processing units
NewTopology ==
    /\ pc = "start"
    /\ hw.status = "ok"
    /\ cpus' = hw.pus
    /\ data' = <<>>
    /\ i' = 1
    /\ pc' = "loop"
    /\ UNCHANGED <<hw, mt, ret, msg>>

\* lines 59-62: one of the two expect() calls on the provider panics
NewProviderPanic ==
    /\ pc = "start"
    /\ hw.status # "ok"
    /\ msg' = IF hw.status = "no_topology" THEN "Can't retrieve Topology"
              ELSE "Can't find CPUs"
    /\ pc' = "panicked"
    /\ UNCHANGED <<hw, cpus, i, data, mt, ret>>

\* lines 64-119: one iteration of the loop that ends in data.push(cpu_info)
NewPush ==
    /\ pc = "loop"
    /\ i <= Len(cpus)
    /\ LET w == Walk(cpus[i]) IN
        /\ Panic(w) = ""
        /\ data' = Append(data, Record(cpus[i], w))
    /\ i' = i + 1
    /\ UNCHANGED <<hw, pc, cpus, mt, ret, msg>>

\* variant: a missing ancestor ends the loop and the table built so far is
\* returned
NewPanicKeepsTable ==
    /\ pc = "loop"
    /\ i <= Len(cpus)
    /\ Panic(Walk(cpus[i])) # ""
    /\ mt' = <<[data |-> data]>>
    /\ data' = <<>>
    /\ pc' = "built"
    /\ UNCHANGED <<hw, cpus, i, ret, msg>>

\* lines 64-98: one iteration of the loop in which an expect() panics; the
\* unwinding drops the table built so far
NewPanic ==
    /\ pc = "loop"
    /\ i <= Len(cpus)
    /\ LET w == Walk(cpus[i]) IN
        /\ Panic(w) # ""
        /\ msg' = Panic(w)
    /\ data' = <<>>
    /\ pc' = "panicked"
    /\ UNCHANGED <<hw, cpus, i, mt, ret>>

\* line 122: the loop is over, the table becomes the MachineTopology
NewReturn ==
    /\ pc = "loop"
    /\ i > Len(cpus)
    /\ mt' = <<[data |-> data]>>
    /\ data' = <<>>
    /\ pc' = "built"
    /\ UNCHANGED <<hw, cpus, i, ret, msg>>

(* ------------------------------- queries ------------------------------- *)
RECURSIVE Insert(_, _)
Insert(x, s) ==
    IF s = <<>> THEN <<x>>
    ELSE IF x < Head(s) THEN <<x>> \o s
    ELSE <<Head(s)>> \o Insert(x, Tail(s))

\* variant: sockets() does not sort
SortNone(s) == s

RECURSIVE Sort(_)
\* Vec::sort: the elements in ascending order
Sort(s) == IF s = <<>> THEN <<>> ELSE Insert(Head(s), Sort(Tail(s)))

RECURSIVE Dedup(_)
\* Vec::dedup: of every run of consecutive equal elements the first is kept
Dedup(s) ==
    IF Len(s) < 2 THEN s
    ELSE IF s[1] = s[2] THEN Dedup(Tail(s))
    ELSE <<s[1]>> \o Dedup(Tail(s))

\* |t| t.socket
SocketOf(t) == t.socket

\* variant: the filter of cpus_on_socket compares t.l2
OnL2(t, socket) == t.l2 = socket

\* |t| t.socket == socket
OnSocket(t, socket) == t.socket = socket

cores_of(table) == Len(table)

sockets_of(table) ==
    Dedup(Sort([k \in 1..Len(table) |-> SocketOf(table[k])]))

RECURSIVE Filter(_, _, _)
\* the positions k..Len(table) of the records on socket, in table order; a
\* &CpuInfo is the position of the record it points to
Filter(table, socket, k) ==
    IF k > Len(table) THEN <<>>
    ELSE IF OnSocket(table[k], socket) THEN <<k>> \o Filter(table, socket, k + 1)
    ELSE Filter(table, socket, k + 1)

cpus_on_socket_of(table, socket) == Filter(table, socket, 1)

SocketArgs == 0..MaxSocketArg

cores ==
    /\ pc = "built"
    /\ ret' = [op |-> "cores", arg |-> 0, val |-> <<cores_of(mt[1].data)>>]
    /\ UNCHANGED <<hw, pc, cpus, i, data, mt, msg>>

sockets ==
    /\ pc = "built"
    /\ ret' = [op |-> "sockets", arg |-> 0, val |-> sockets_of(mt[1].data)]
    /\ UNCHANGED <<hw, pc, cpus, i, data, mt, msg>>

cpus_on_socket ==
    /\ pc = "built"
    /\ \E socket \in SocketArgs :
         ret' = [op |-> "cpus_on_socket", arg |-> socket,
                 val |-> cpus_on_socket_of(mt[1].data, socket)]
    /\ UNCHANGED <<hw, pc, cpus, i, data, mt, msg>>

(* ---------------------------- specifications --------------------------- *)
Start ==
    /\ pc = "start"
    /\ cpus = <<>>
    /\ i = 0
    /\ data = <<>>
    /\ mt = <<>>
    /\ ret = [op |-> "none", arg |-> 0, val |-> <<>>]
    /\ msg = ""

ProviderFails == \E why \in {"no_topology", "no_pus"} : hw = Failed(why)

\* a tree of the forest family
ForestInit ==
    \E m \in [1..Len(Frame) -> BOOLEAN] :
      \E sp \in 0..Len(Pick(Frame, m)) :
        \E np \in 0..MaxPU :
          \E att \in [1..np -> 0..Interior(Pick(Frame, m), sp)] :
            hw = ForestTree(Pick(Frame, m), sp, att)

\* a tree of the chain family
ChainInit ==
    \E len \in 0..MaxChain :
      \E ks \in [1..len -> ChainKinds] :
        hw = ChainTree(ks)

Init == Start /\ (ProviderFails \/ ForestInit \/ ChainInit)

Next ==
    \/ NewTopology
    \/ NewProviderPanic
    \/ NewPush
    \/ NewPanic
    \/ NewReturn
    \/ cores
    \/ sockets
    \/ cpus_on_socket

Spec == Init /\ [][Next]_vars

(* ------------------- vocabulary of the properties ---------------------- *)
\* The properties speak of the tree through the ancestor relation, not
\* through the loops of new().
RECURSIVE AncestorsOf(_)
AncestorsOf(o) ==
    IF hw.parent[o] = NoObj THEN {}
    ELSE {hw.parent[o]} \cup AncestorsOf(hw.parent[o])

TypedCore(o) == hw.type[o] = "Core"

TypedL1(o) == hw.type[o] = "L1Cache" /\ hw.depth[o] >= 1

TypedL2(o) == hw.type[o] = "L2Cache" /\ hw.depth[o] >= 2

TypedL3(o) == hw.type[o] = "L3Cache" /\ hw.depth[o] >= 3

TypedNuma(o) == hw.type[o] = "NUMANode"

\* the object of S nearest to the bottom of its chain, NoObj when S is empty
Lowest(S) ==
    IF S = {} THEN NoObj
    ELSE CHOOSE x \in S : \A y \in S : y = x \/ y \in AncestorsOf(x)

NearestCore(p) == Lowest({a \in AncestorsOf(p) : TypedCore(a)})

NearestL1(c) == Lowest({a \in AncestorsOf(c) : TypedL1(a)})

NearestL2(a1) == Lowest({a \in AncestorsOf(a1) : TypedL2(a)})

NearestL3(a2) == Lowest({a \in AncestorsOf(a2) : TypedL3(a)})

NearestNuma(a3) == Lowest({a \in AncestorsOf(a3) : TypedNuma(a)})

\* the objects of the staged ascent from the processing unit p
Staged(p) ==
    LET c  == NearestCore(p)
        a1 == IF c = NoObj THEN NoObj ELSE NearestL1(c)
        a2 == IF a1 = NoObj THEN NoObj ELSE NearestL2(a1)
        a3 == IF a2 = NoObj THEN NoObj ELSE NearestL3(a2)
    IN  [core |-> c, l1 |-> a1, l2 |-> a2, l3 |-> a3]

\* p has a Core, an L1 above it, an L2 above that and an L3 above that
HasAscendingAncestors(p) ==
    \E c \in AncestorsOf(p) : TypedCore(c) /\
      \E a1 \in AncestorsOf(c) : TypedL1(a1) /\
        \E a2 \in AncestorsOf(a1) : TypedL2(a2) /\
          \E a3 \in AncestorsOf(a2) : TypedL3(a3)

\* p has a Core, an L1, an L2 and an L3 among its ancestors, in any order
HasAllAncestors(p) ==
    /\ \E c \in AncestorsOf(p) : TypedCore(c)
    /\ \E a \in AncestorsOf(p) : TypedL1(a)
    /\ \E a \in AncestorsOf(p) : TypedL2(a)
    /\ \E a \in AncestorsOf(p) : TypedL3(a)

ProviderOk == hw.status = "ok"

Units == 1..Len(hw.pus)

Built == mt # <<>>

\* the record table of the constructed topology
Table == IF mt = <<>> THEN <<>> ELSE mt[1].data

Range(s) == {s[k] : k \in 1..Len(s)}

(* ------------------------------ properties ----------------------------- *)
\* C1: once new() has returned, the table holds one record per processing
\* unit of the provider, in the provider's order (the k-th record's cpu is the
\* OS index of the k-th unit), cores() returns the number of units, and no
\* query changes the table.
C1_TableMatchesProvider ==
    /\ [](Built =>
            /\ Len(Table) = Len(hw.pus)
            /\ \A k \in Units : Table[k].cpu = hw.os[hw.pus[k]]
            /\ (ret.op = "cores" => ret.val = <<Len(hw.pus)>>))
    /\ [][Built => mt' = mt]_vars

C1_Witness ==
    /\ ret.op = "cores"
    /\ Len(Table) >= 2
    /\ Table[1].cpu # 0

\* C2: sockets() returns a strictly ascending sequence whose values are
\* exactly the socket fields of the table.
C2_SocketsSortedExact ==
    ret.op = "sockets" =>
        /\ \A j, k \in 1..Len(ret.val) : j < k => ret.val[j] < ret.val[k]
        /\ Range(ret.val) = {Table[k].socket : k \in 1..Len(Table)}

C2_Witness ==
    /\ ret.op = "sockets"
    /\ Len(Table) >= 2
    /\ Table[1].socket > Table[2].socket
    /\ Len(ret.val) = 2

\* C3: cpus_on_socket(s) returns exactly the records whose socket is s, in
\* table order; over the values of sockets() the results partition the table,
\* and a value that sockets() does not return gives the empty sequence.
C3_CpusOnSocketExact ==
    Built =>
        /\ ret.op = "cpus_on_socket" =>
             /\ \A j, k \in 1..Len(ret.val) : j < k => ret.val[j] < ret.val[k]
             /\ Range(ret.val) = {k \in 1..Len(Table) : Table[k].socket = ret.arg}
             /\ (ret.arg \notin Range(sockets_of(Table)) => ret.val = <<>>)
        /\ \A k \in 1..Len(Table) :
             Cardinality({s \in Range(sockets_of(Table)) :
                            k \in Range(cpus_on_socket_of(Table, s))}) = 1
        /\ \A s \in Range(sockets_of(Table)) :
             LET r == cpus_on_socket_of(Table, s) IN
             /\ Cardinality(Range(r)) = Len(r)
             /\ \A k \in Range(r) : Table[k].socket = s

C3_Witness ==
    /\ ret.op = "cpus_on_socket"
    /\ ret.val # <<>>
    /\ Len(ret.val) < Len(Table)
    /\ ret.val[1] = 2

\* C4: every record of a constructed topology has l3 = socket.
C4_L3IsSocket ==
    \A k \in 1..Len(Table) : Table[k].l3 = Table[k].socket

C4_Witness ==
    \E k \in 1..Len(Table) :
        /\ Table[k].l3 = Table[k].socket
        /\ Table[k].l2 # Table[k].socket

\* C5: when the staged ascent of any processing unit lacks a Core, L1, L2 or
\* L3, new() panics and no MachineTopology is produced, not even one holding
\* the records of the earlier units; every record that is created has its
\* core, l1, l2, l3 and socket taken from an ancestor of the right type.
C5_AllOrNothing ==
    /\ (ProviderOk /\ \E k \in Units : ~HasAscendingAncestors(hw.pus[k])) => ~Built
    /\ pc = "panicked" => (~Built /\ data = <<>>)
    /\ \A k \in 1..Len(data) \cup 1..Len(Table) :
         LET r == IF Built THEN Table[k] ELSE data[k]
             anc == AncestorsOf(hw.pus[k]) IN
         /\ \E c \in anc : hw.type[c] = "Core" /\ logical_index(c) = r.core
         /\ \E a \in anc : hw.type[a] = "L1Cache" /\ logical_index(a) = r.l1
         /\ \E a \in anc : hw.type[a] = "L2Cache" /\ logical_index(a) = r.l2
         /\ \E a \in anc : hw.type[a] = "L3Cache" /\ logical_index(a) = r.l3
                           /\ logical_index(a) = r.socket

C5_Witness ==
    /\ pc = "panicked"
    /\ i = 2
    /\ HasAscendingAncestors(hw.pus[1])
    /\ ~HasAscendingAncestors(hw.pus[2])

\* C6 as stated: when the provider succeeds and every processing unit has a
\* Core, an L1 of depth >= 1, an L2 of depth >= 2 and an L3 of depth >= 3
\* among its ancestors, in whatever order, new() does not panic.
C6_AnyOrderSucceeds ==
    (ProviderOk /\ \A k \in Units : HasAllAncestors(hw.pus[k])) => pc # "panicked"

\* C6 amended: new() panics only when the provider fails or some processing
\* unit lacks the ascending sequence Core, L1 above it, L2 above that, L3
\* above that; with that sequence in every chain new() does not panic,
\* whatever other objects the chain holds.
C6_AscendingOrderSucceeds ==
    /\ (ProviderOk /\ \A k \in Units : HasAscendingAncestors(hw.pus[k]))
          => pc # "panicked"
    /\ (pc = "loop" /\ i > Len(hw.pus)) => \A k \in Units : HasAscendingAncestors(hw.pus[k])

C6_Witness ==
    /\ Built
    /\ Len(Table) = 1
    /\ hw.n = 6
    /\ \E o \in 1..hw.n : hw.type[o] = "Package" /\ o < Staged(hw.pus[1]).l3

\* C7: in a tree without NUMA-node objects whose processing units all have
\* their Core, L1, L2 and L3 in ascending order, new() does not panic and
\* every record has node absent and cpu, core, l1, l2, l3 and socket taken
\* from the unit and the objects of its staged ascent.
C7_NoNumaTolerated ==
    (ProviderOk /\ (\A o \in 1..hw.n : ~TypedNuma(o))
                /\ \A k \in Units : HasAscendingAncestors(hw.pus[k])) =>
        /\ pc # "panicked"
        /\ Built => \A k \in Units :
             LET e == Staged(hw.pus[k]) IN
             /\ Table[k].node = <<>>
             /\ Table[k].cpu = hw.os[hw.pus[k]]
             /\ Table[k].core = logical_index(e.core)
             /\ Table[k].l1 = logical_index(e.l1)
             /\ Table[k].l2 = logical_index(e.l2)
             /\ Table[k].l3 = logical_index(e.l3)
             /\ Table[k].socket = logical_index(e.l3)

C7_Witness ==
    /\ Built
    /\ Len(Table) = 2
    /\ \A o \in 1..hw.n : ~TypedNuma(o)
    /\ Table[1].node = <<>>
    /\ Table[1].socket # Table[2].socket

\* C8: the record of every processing unit p equals the result of the staged
\* ascent of p's chain: nearest Core above p, nearest L1 of depth >= 1 above
\* that Core, nearest L2 of depth >= 2 above that L1, nearest L3 of depth >= 3
\* above that L2 (l3 and socket), nearest NUMA node above that L3 (node, with
\* its OS index and memory), and p's OS index (cpu).
C8_RecordIsStagedAscent ==
    Built => \A k \in Units :
        LET e == Staged(hw.pus[k]) IN
        /\ e.core # NoObj /\ e.l1 # NoObj /\ e.l2 # NoObj /\ e.l3 # NoObj
        /\ Table[k] =
             [ node   |-> IF NearestNuma(e.l3) = NoObj THEN <<>>
                          ELSE << [node   |-> hw.os[NearestNuma(e.l3)],
                                   memory |-> hw.mem[NearestNuma(e.l3)]] >>,
               socket |-> logical_index(e.l3),
               core   |-> logical_index(e.core),
               cpu    |-> hw.os[hw.pus[k]],
               l1     |-> logical_index(e.l1),
               l2     |-> logical_index(e.l2),
               l3     |-> logical_index(e.l3) ]

\* a cache of too small a depth lies between the unit and the cache selected
C8_Witness ==
    /\ Built
    /\ Len(Table) = 1
    /\ \E a \in AncestorsOf(hw.pus[1]) :
         /\ hw.type[a] = "L1Cache"
         /\ hw.depth[a] < 1
         /\ Staged(hw.pus[1]).l1 \in AncestorsOf(a)
         /\ a \in AncestorsOf(Staged(hw.pus[1]).core)
    /\ Table[1].l1 = 1

\* C9 as stated: whenever any ancestor of a processing unit, at any height,
\* is a NUMA node, the unit's record has node present, holding the OS index
\* and memory of a NUMA-node ancestor.
C9_AnyNumaAncestorFound ==
    Built => \A k \in Units :
        (\E a \in AncestorsOf(hw.pus[k]) : TypedNuma(a)) =>
            /\ Table[k].node # <<>>
            /\ \E a \in AncestorsOf(hw.pus[k]) :
                 /\ TypedNuma(a)
                 /\ Table[k].node[1] = [node |-> hw.os[a], memory |-> hw.mem[a]]

\* C9 amended: node is absent exactly when no NUMA node lies above the L3
\* cache selected as the unit's socket; when one does, node is present and
\* holds the OS index and memory of a NUMA-node ancestor above that L3.
C9_NumaAboveL3Found ==
    Built => \A k \in Units :
        LET above == {a \in AncestorsOf(Staged(hw.pus[k]).l3) : TypedNuma(a)} IN
        /\ (above = {}) <=> (Table[k].node = <<>>)
        /\ above # {} =>
             \E a \in above :
                 Table[k].node[1] = [node |-> hw.os[a], memory |-> hw.mem[a]]

\* a NUMA node above the L3 is found although another lies below the L3
C9_Witness ==
    /\ Built
    /\ \E k \in Units :
         /\ Table[k].node # <<>>
         /\ \E a \in AncestorsOf(hw.pus[k]) :
              TypedNuma(a) /\ Staged(hw.pus[k]).l3 \in AncestorsOf(a)

\* C10: records with equal core agree on l1, l2, l3, socket and node; with
\* equal l1 on l2, l3, socket and node; with equal l2 on l3, socket and node;
\* with equal socket on node; hence the records cpus_on_socket returns all
\* carry one node value.
C10_HierarchyConsistent ==
    /\ \A j, k \in 1..Len(Table) :
         LET a == Table[j]
             b == Table[k]
             top == a.l3 = b.l3 /\ a.socket = b.socket /\ a.node = b.node
         IN  /\ a.core = b.core => (a.l1 = b.l1 /\ a.l2 = b.l2 /\ top)
             /\ a.l1 = b.l1 => (a.l2 = b.l2 /\ top)
             /\ a.l2 = b.l2 => top
             /\ a.socket = b.socket => a.node = b.node
    /\ ret.op = "cpus_on_socket" =>
         \A j, k \in Range(ret.val) : Table[j].node = Table[k].node

C10_Witness ==
    /\ ret.op = "cpus_on_socket"
    /\ Len(ret.val) = 2
    /\ Table[1].socket = Table[2].socket
    /\ Table[1].l2 # Table[2].l2
    /\ Table[1].node # <<>>

====
